---- MODULE Spec2Model ----
(***************************************************************************)
(* Model of the sqlite_migrator engine (src/src/migration.rs) and of the   *)
(* conversion of loaded migration folders into steps (src/src/loader.rs).  *)
(*                                                                         *)
(* A call of to_latest / to_version is modelled by one entry action, which *)
(* covers everything the code does up to and including the opening of the  *)
(* transaction, followed by one action per statement executed inside the   *)
(* transaction (script, foreign key check, hook, version write, commit).   *)
(* Every fallible call of the code draws its outcome from a small set.     *)
(* The commands of the binary (src/src/main.rs) and Migrations::validate   *)
(* enter the same engine from their own specifications; the scaffolding    *)
(* command (src/src/command/create.rs) has a specification of its own.     *)
(***************************************************************************)
EXTENDS Integers, Sequences, FiniteSets, TLC

\* Longest step sequence / directory explored.
MaxSteps == 2

\* Largest raw version explored, for the persisted counter and for the
\* argument of to_version: one more than the longest sequence, so that a
\* version is "outside" even for a sequence of MaxSteps steps.
MaxVersion == MaxSteps + 1

\* Option::None of M.down and MigrationFile.down.
None == "None"

\* No transaction open on the connection.
NoTx == [version |-> -1, contents |-> {}]

\* The engine is called directly, by no command.
NoCmd == [op |-> "none", n |-> -1]

\* A store no migration has touched: user_version 0, nothing in it.
Fresh == [version |-> 0, contents |-> {}]

VARIABLES
    dir,      \* the migration directory the sequence was loaded from (<<>>: built by Migrations::new)
    ms,       \* Migrations.ms: the step sequence, ms[i+1] is the code's self.ms[i]
    db,       \* the committed store: persisted user_version and schema contents
    tx,       \* the open transaction's view of the store, or NoTx
    pc,       \* position of the running call, "idle" between calls
    call,     \* the public call last entered: its name and argument
    target,   \* target_version of the running goto_up / goto_down
    current,  \* current_version read by goto
    v,        \* loop variable of goto_up / goto_down (0-based storage index)
    log,      \* what the last call did to the connection, in order
    result,   \* Result<()> returned by the last call
    pre,      \* the committed store when the last call was entered
    cmd,      \* the caller of the engine: a command of the binary, validate, or none
    conn,     \* the connection the running call was given: "db" or "mem"
    mem       \* the in-memory store opened by validate, NoTx before it exists

vars == <<dir, ms, db, tx, pc, call, target, current, v, log, result, pre,
          cmd, conn, mem>>

----------------------------------------------------------------------------
(* Steps and their construction *)

\* struct M; up is required and not distinguished, comment is diagnostic only.
MkM(up_hook, down, down_hook, foreign_key_check) ==
    [up_hook |-> up_hook, down |-> down, down_hook |-> down_hook,
     foreign_key_check |-> foreign_key_check]

\* M::up(sql)
M_up == MkM(FALSE, None, FALSE, FALSE)

\* M::down(self, sql)
M_down(m, sql) == [m EXCEPT !.down = sql]

\* Option::unwrap_or_default on Option<String>
unwrap_or_default(opt) == IF opt = None THEN "" ELSE opt

\* impl From<&MigrationFile> for M
M_from(file) == M_down(M_up, unwrap_or_default(file.down))

\* What the folder of one migration holds: the number its name starts with
\* and the state of its down.sql ("present", "absent" or "unreadable").
DownStates == {"present", "absent", "unreadable"}

\* get_migrations: down stays None unless down.sql exists and can be read.
get_migrations_down(entry) ==
    IF entry.down = "present" THEN "sql" ELSE None

\* get_id: NonZeroUsize::new refuses the id 0.
get_id(entry) == [ok |-> entry.id # 0, id |-> entry.id]

\* impl TryFrom<&DirEntry> for MigrationFile
MigrationFile_from(entry) ==
    [id |-> entry.id, down |-> get_migrations_down(entry)]

\* The loop of from_directory over the sorted entries: slots is the vector
\* `migrations`, NoSlot its None.
NoSlot == [empty |-> TRUE]

RECURSIVE from_directory_loop(_, _, _)
from_directory_loop(entries, k, slots) ==
    IF k > Len(entries) THEN [ok |-> TRUE, slots |-> slots]
    ELSE IF ~get_id(entries[k]).ok THEN [ok |-> FALSE, slots |-> <<>>]
    ELSE LET file == MigrationFile_from(entries[k])
             id   == file.id - 1
         IN  IF Len(slots) <= id THEN [ok |-> FALSE, slots |-> <<>>]
             ELSE IF slots[id + 1] # NoSlot THEN [ok |-> FALSE, slots |-> <<>>]
             ELSE from_directory_loop(entries, k + 1,
                                      [slots EXCEPT ![id + 1] = M_from(file)])

\* from_directory without its check for a directory holding no migration.
from_directory_allows_empty(entries) ==
    LET r == from_directory_loop(entries, 1, [i \in 1..Len(entries) |-> NoSlot])
    IN  IF ~r.ok THEN [ok |-> FALSE, ms |-> <<>>]
        ELSE IF \E i \in 1..Len(r.slots) : r.slots[i] = NoSlot
             THEN [ok |-> FALSE, ms |-> <<>>]
        ELSE [ok |-> TRUE, ms |-> r.slots]

\* loader::from_directory followed by Migrations::from_directory
from_directory(entries) ==
    LET r == from_directory_loop(entries, 1, [i \in 1..Len(entries) |-> NoSlot])
    IN  IF ~r.ok THEN [ok |-> FALSE, ms |-> <<>>]
        ELSE IF \A i \in 1..Len(r.slots) : r.slots[i] = NoSlot
             THEN [ok |-> FALSE, ms |-> <<>>]
        ELSE IF \E i \in 1..Len(r.slots) : r.slots[i] = NoSlot
             THEN [ok |-> FALSE, ms |-> <<>>]
        ELSE [ok |-> TRUE, ms |-> r.slots]

----------------------------------------------------------------------------
(* SchemaVersion *)

NoneSet == [tag |-> "NoneSet", v |-> 0]
Inside(n) == [tag |-> "Inside", v |-> n]
Outside(n) == [tag |-> "Outside", v |-> n]

\* impl From<&SchemaVersion> for usize
usize_from(schema_version) ==
    IF schema_version.tag = "NoneSet" THEN 0 ELSE schema_version.v

\* cmp without its Equal arm.
cmp_no_equal(a, b) == IF a < b THEN "Less" ELSE "Greater"

\* Ord::cmp on usize
cmp(a, b) == IF a < b THEN "Less" ELSE IF a = b THEN "Equal" ELSE "Greater"

\* partial_cmp with its operands swapped.
partial_cmp_swapped(a, b) == cmp(usize_from(b), usize_from(a))

\* impl PartialOrd for SchemaVersion
partial_cmp(a, b) == cmp(usize_from(a), usize_from(b))

\* db_version_to_schema with v < self.ms.len() for its Inside arm.
db_version_to_schema_strict(db_version) ==
    IF db_version = 0 THEN NoneSet
    ELSE IF db_version > 0 /\ db_version < Len(ms) THEN Inside(db_version)
    ELSE Outside(db_version)

\* Migrations::db_version_to_schema
db_version_to_schema(db_version) ==
    IF db_version = 0 THEN NoneSet
    ELSE IF db_version > 0 /\ db_version <= Len(ms) THEN Inside(db_version)
    ELSE Outside(db_version)

\* max_schema_version taking the last index for the last version.
max_schema_version_index == IF Len(ms) <= 1 THEN NoneSet ELSE Inside(Len(ms) - 1)

\* max_schema_version without its arm for the empty sequence.
max_schema_version_unchecked == Inside(Len(ms))

\* Migrations::max_schema_version
max_schema_version == IF Len(ms) = 0 THEN NoneSet ELSE Inside(Len(ms))


----------------------------------------------------------------------------
(* The store and the results of a call *)

\* Ok(())
Ok == [kind |-> "ok", idx |-> -1]

\* Err(..): kind names the failing place, idx the index an error carries.
Err(kind, idx) == [kind |-> kind, idx |-> idx]

\* No call has returned yet / the call is still running.
Pending == [kind |-> "pending", idx |-> -1]

\* tx.execute_batch(&m.up): the forward script of the step stored at index i
\* leaves the effects of version i + 1 in the store.
execute_up(store, i) == [store EXCEPT !.contents = @ \cup {i + 1}]

\* tx.execute_batch(down): a non-empty reverse script removes the effects of
\* version i + 1, an empty batch executes no statement.
execute_down(store, i, down) ==
    IF down = "" THEN store ELSE [store EXCEPT !.contents = @ \ {i + 1}]

\* set_user_version writing the version after the one it is given.
set_user_version_next(store, val) == [store EXCEPT !.version = val + 1]

\* set_user_version (val never exceeds ms.len(), so the cast to u32 keeps it)
set_user_version(store, val) == [store EXCEPT !.version = val]

\* user_version
user_version(store) == store.version

\* The committed store holds what the transaction saw: tx.commit().
commit(store) == store

\* A drop that keeps what the transaction did (DropBehavior::Commit).
rollback_commits(committed, store) == store

\* Dropping the Transaction without commit (DropBehavior::Rollback, the
\* default of Connection::transaction): the committed store is kept.
rollback(committed, store) == committed

----------------------------------------------------------------------------
(* goto_up *)

\* The loop head of goto_up stopping one step early.
up_for_short(i, t) == IF i + 1 < t THEN "up_script" ELSE "set_user_version"

\* for v in current_version..target_version: the loop head.
up_for(i, t) == IF i < t THEN "up_script" ELSE "set_user_version"

\* What follows the foreign key check of step m (or its absence).
after_fk(m) == IF m.up_hook THEN "up_hook" ELSE "up_next"

\* The forward hook run in place of the foreign key check.
after_up_no_check(m) == after_fk(m)

\* The forward hook run before the foreign key check, which it then skips.
after_up_hook_first(m) ==
    IF m.up_hook THEN "up_hook"
    ELSE IF m.foreign_key_check THEN "up_fk" ELSE "up_next"

\* What follows the forward script of step m.
after_up(m) == IF m.foreign_key_check THEN "up_fk" ELSE after_fk(m)

\* Continue goto_up's loop body at pos, "up_next" being the next iteration.
UpAdvance(pos) ==
    IF pos = "up_next"
    THEN v' = v + 1 /\ pc' = up_for(v + 1, target)
    ELSE v' = v /\ pc' = pos

\* The committed store behind the connection of the running call.
Committed == IF conn = "mem" THEN mem ELSE db

\* The store behind the connection of the running call becomes store.
Persist(store) ==
    IF conn = "mem" THEN mem' = store /\ db' = db
    ELSE db' = store /\ mem' = mem

\* An error (or panic) leaves the function while the transaction is open:
\* the Transaction is dropped, which rolls it back.
Rollback(kind) ==
    /\ Persist(rollback(Committed, tx))
    /\ tx' = NoTx
    /\ pc' = "idle"
    /\ result' = Err(kind, -1)
    /\ log' = Append(log, <<"rollback", 0>>)
    /\ UNCHANGED <<dir, ms, cmd, conn, call, target, current, v, pre>>

\* The debug_assert!s of goto_up.
goto_up_asserts(cur, t) == cur <= t /\ t <= Len(ms)

\* goto_up / goto_down return (or panic) before a transaction is open.
Leave(r, l) ==
    /\ tx' = tx
    /\ log' = l
    /\ v' = 0
    /\ pc' = "idle"
    /\ result' = r

\* goto_up up to conn.transaction(), on the store behind conn. When an
\* assertion fails, a build with debug assertions panics and a release
\* build goes on.
goto_up(store, cur, t, l) ==
    /\ target' = t
    /\ current' = cur
    /\ db' = db
    /\ \/ ~goto_up_asserts(cur, t) /\ Leave(Err("debug_assert", -1), l)
       \/ \E txOk \in BOOLEAN :
             IF txOk
             THEN /\ tx' = store
                  /\ log' = Append(l, <<"begin", 0>>)
                  /\ v' = cur
                  /\ pc' = up_for(cur, t)
                  /\ result' = Pending
             ELSE Leave(Err("transaction", -1), l)

\* tx.execute_batch(&m.up)
UpScript ==
    /\ pc = "up_script"
    /\ IF v < 0 \/ v >= Len(ms) THEN Rollback("index_out_of_bounds")
       ELSE \E ok \in BOOLEAN :
            IF ok
            THEN /\ tx' = execute_up(tx, v)
                 /\ log' = Append(log, <<"up", v + 1>>)
                 /\ UpAdvance(after_up(ms[v + 1]))
                 /\ UNCHANGED <<dir, ms, cmd, conn, mem, db, call, target, current, result, pre>>
            ELSE Rollback("query")

\* validate_foreign_keys(&tx): the query fails, returns a row, or returns none.
UpFk ==
    /\ pc = "up_fk"
    /\ \E outcome \in {"error", "row", "no_row"} :
          IF outcome = "no_row"
          THEN /\ log' = Append(log, <<"fk", v + 1>>)
               /\ UpAdvance(after_fk(ms[v + 1]))
               /\ UNCHANGED <<dir, ms, cmd, conn, mem, db, tx, call, target, current, result, pre>>
          ELSE Rollback(IF outcome = "row" THEN "foreign_key" ELSE "query")

\* hook(&tx) of m.up_hook
UpHook ==
    /\ pc = "up_hook"
    /\ \E ok \in BOOLEAN :
          IF ok
          THEN /\ log' = Append(log, <<"up_hook", v + 1>>)
               /\ UpAdvance("up_next")
               /\ UNCHANGED <<dir, ms, cmd, conn, mem, db, tx, call, target, current, result, pre>>
          ELSE Rollback("hook")

\* set_user_version(&tx, target_version) of goto_up and goto_down
SetUserVersion ==
    /\ pc = "set_user_version"
    /\ \E ok \in BOOLEAN :
          IF ok
          THEN /\ tx' = set_user_version(tx, target)
               /\ log' = Append(log, <<"write", target>>)
               /\ pc' = "commit"
               /\ UNCHANGED <<dir, ms, cmd, conn, mem, db, call, target, current, v, result, pre>>
          ELSE Rollback("query")

\* tx.commit() of goto_up and goto_down, and the return through goto, which
\* logs "Database migrated to version .." when the result is Ok.
Commit ==
    /\ pc = "commit"
    /\ \E ok \in BOOLEAN :
          IF ok
          THEN /\ Persist(commit(tx))
               /\ tx' = NoTx
               /\ log' = log \o << <<"commit", 0>>, <<"migrated", target>> >>
               /\ pc' = "idle"
               /\ result' = Ok
               /\ UNCHANGED <<dir, ms, cmd, conn, call, target, current, v, pre>>
          ELSE Rollback("commit")

----------------------------------------------------------------------------
(* goto_down *)

\* The pre-flight check starting one step late: skip(target + 1).
no_down_late(cur, t) ==
    {i \in 0..(Len(ms) - 1) : i >= t + 1 /\ i < t + (cur - t) /\ ms[i + 1].down = None}

\* The steps the pre-flight check of goto_down finds without a reverse
\* script: .enumerate().skip(target).take(current - target), by index.
no_down(cur, t) ==
    {i \in 0..(Len(ms) - 1) : i >= t /\ i < t + (cur - t) /\ ms[i + 1].down = None}

\* Iterator::rfind, the last match.
last(S) == CHOOSE i \in S : \A j \in S : i >= j

\* Iterator::find returns the first match.
first(S) == CHOOSE i \in S : \A j \in S : i <= j

\* The body of goto_down's loop for index i starts with the hook, if any.
down_body(i) ==
    IF i >= 0 /\ i < Len(ms) /\ ms[i + 1].down # None /\ ms[i + 1].down_hook
    THEN "down_hook" ELSE "down_script"

\* The loop head of goto_down stopping one step early.
down_for_short(i, t) == IF i > t THEN down_body(i) ELSE "set_user_version"

\* The loop head of goto_down going one step too far.
down_for_long(i, t) == IF i + 1 >= t THEN down_body(i) ELSE "set_user_version"

\* for v in (target_version..current_version).rev(): the loop head.
down_for(i, t) == IF i >= t THEN down_body(i) ELSE "set_user_version"

\* The debug_assert!s of goto_down.
goto_down_asserts(cur, t) == cur >= t /\ t <= Len(ms)

\* goto_down up to conn.transaction(), on the store behind conn; the
\* assertions as in goto_up.
goto_down(store, cur, t, l) ==
    /\ target' = t
    /\ current' = cur
    /\ db' = db
    /\ \/ ~goto_down_asserts(cur, t) /\ Leave(Err("debug_assert", -1), l)
       \/ IF no_down(cur, t) # {}
          THEN Leave(Err("down_not_defined", first(no_down(cur, t))), l)
          ELSE \E txOk \in BOOLEAN :
               IF txOk
               THEN /\ tx' = store
                    /\ log' = Append(l, <<"begin", 0>>)
                    /\ v' = cur - 1
                    /\ pc' = down_for(cur - 1, t)
                    /\ result' = Pending
               ELSE Leave(Err("transaction", -1), l)

\* hook(&tx) of m.down_hook
DownHook ==
    /\ pc = "down_hook"
    /\ \E ok \in BOOLEAN :
          IF ok
          THEN /\ log' = Append(log, <<"down_hook", v + 1>>)
               /\ pc' = "down_script"
               /\ UNCHANGED <<dir, ms, cmd, conn, mem, db, tx, call, target, current, v, result, pre>>
          ELSE Rollback("hook")

\* tx.execute_batch(down), then the next iteration
DownScript ==
    /\ pc = "down_script"
    /\ IF v < 0 \/ v >= Len(ms) THEN Rollback("index_out_of_bounds")
       ELSE IF ms[v + 1].down = None THEN Rollback("unreachable")
       ELSE \E ok \in BOOLEAN :
            IF ok
            THEN /\ tx' = execute_down(tx, v, ms[v + 1].down)
                 /\ log' = Append(log, <<"down", v + 1>>)
                 /\ v' = v - 1
                 /\ pc' = down_for(v - 1, target)
                 /\ UNCHANGED <<dir, ms, cmd, conn, mem, db, call, target, current, result, pre>>
            ELSE Rollback("query")

----------------------------------------------------------------------------
(* goto, to_latest, to_version *)

\* The "database too far ahead" check taking the last version for ahead.
too_far_ahead_inclusive(cur) == cur >= Len(ms)

\* goto without its "database too far ahead" check.
too_far_ahead_unchecked(cur) == FALSE

\* The store is ahead of the known sequence (goto, Ordering::Less).
too_far_ahead(cur) == cur > Len(ms)

\* A call returns before goto_up / goto_down is entered.
Return(r, l) ==
    /\ result' = r
    /\ log' = l
    /\ pc' = "idle"
    /\ target' = 0
    /\ current' = 0
    /\ v' = 0
    /\ UNCHANGED <<db, tx>>

\* Migrations::goto on the store behind conn; l is what the caller has
\* already done to the connection.
goto(store, target_db_version, l) ==
    \E readOk \in BOOLEAN :
        IF ~readOk
        THEN Return(Err("user_version", -1), Append(l, <<"read_failed", 0>>))
        ELSE LET current_version == user_version(store)
                 l1 == Append(l, <<"read", 0>>)
                 ord == cmp(target_db_version, current_version)
             IN  IF ord = "Less"
                 THEN IF too_far_ahead(current_version)
                      THEN Return(Err("too_far_ahead", -1), l1)
                      ELSE goto_down(store, current_version, target_db_version, l1)
                 ELSE IF ord = "Equal"
                 THEN Return(Ok, l1)
                 ELSE goto_up(store, current_version, target_db_version, l1)

\* Migrations::to_latest on the store behind conn
to_latest(store, l) ==
    /\ call' = [op |-> "to_latest", arg |-> 0]
    /\ pre' = store
    /\ LET v_max == max_schema_version
       IN  IF v_max.tag = "NoneSet"
           THEN Return(Err("no_migration_defined", -1), l)
           ELSE goto(store, usize_from(v_max), l)

\* Migrations::to_version on the store behind conn
to_version(store, version, l) ==
    /\ call' = [op |-> "to_version", arg |-> version]
    /\ pre' = store
    /\ LET target_version == db_version_to_schema(version)
           v_max == max_schema_version
       IN  IF v_max.tag = "NoneSet"
           THEN Return(Err("no_migration_defined", -1), l)
           ELSE IF partial_cmp(target_version, v_max) = "Greater"
           THEN Return(Err("higher_than_max", -1), l)
           ELSE goto(store, usize_from(target_version), l)

\* A caller holding a connection to the store calls to_latest.
ToLatest ==
    /\ pc = "idle"
    /\ to_latest(db, <<>>)
    /\ UNCHANGED <<dir, ms, cmd, conn, mem>>

\* A caller holding a connection to the store calls to_version.
ToVersion(version) ==
    /\ pc = "idle"
    /\ to_version(db, version, <<>>)
    /\ UNCHANGED <<dir, ms, cmd, conn, mem>>

----------------------------------------------------------------------------
(* Specification *)

\* The steps Migrations::new can be given: built with M::up and M::down, and
\* with every value of the fields up_hook, down_hook and foreign_key_check.
Ms == {MkM(uh, d, dh, fk) : uh \in BOOLEAN, d \in {None, "sql"},
                             dh \in BOOLEAN, fk \in BOOLEAN}

NewSequences == UNION {[1..n -> Ms] : n \in 0..MaxSteps}

\* The directories from_directory can be given: the folders in file name
\* order, each with the id its name carries and the state of its down.sql.
Entries == [id : 1..MaxVersion, down : DownStates]

Directories == UNION {[1..n -> Entries] : n \in 1..MaxSteps}

Init ==
    /\ \/ dir = <<>> /\ ms \in NewSequences
       \/ /\ dir \in Directories
          /\ from_directory(dir).ok
          /\ ms = from_directory(dir).ms
    /\ \E v0 \in 0..MaxVersion : db = [version |-> v0, contents |-> 1..v0]
    /\ tx = NoTx
    /\ pc = "idle"
    /\ call = [op |-> "none", arg |-> 0]
    /\ target = 0
    /\ current = 0
    /\ v = 0
    /\ log = <<>>
    /\ result = Pending
    /\ pre = db
    /\ cmd = NoCmd
    /\ conn = "db"
    /\ mem = NoTx

Next ==
    \/ ToLatest
    \/ \E t \in 0..MaxVersion : ToVersion(t)
    \/ UpScript
    \/ UpFk
    \/ UpHook
    \/ DownHook
    \/ DownScript
    \/ SetUserVersion
    \/ Commit

Spec == Init /\ [][Next]_vars

----------------------------------------------------------------------------
(* The commands up and down of the binary *)

\* usize::MAX, scaled down.
UsizeMax == 7

\* Option<usize>::None of the step count -n, which is an integer otherwise.
NoCount == NoCmd.n

\* The step counts a command is given.
Counts == {NoCount} \cup 0..MaxVersion \cup {UsizeMax}

\* usize + usize: the sum, or on overflow a panic in a build with overflow
\* checks and the wrapped sum in a build without them.
usize_add(a, b) ==
    IF a + b <= UsizeMax THEN {[panic |-> FALSE, val |-> a + b]}
    ELSE {[panic |-> TRUE, val |-> 0],
          [panic |-> FALSE, val |-> (a + b) % (UsizeMax + 1)]}

\* usize::saturating_sub
saturating_sub(a, b) == IF b > a THEN 0 ELSE a - b

\* usize::checked_sub, None as -1
checked_sub(a, b) == IF b > a THEN -1 ELSE a - b

\* Migrations::current_version
current_version(store) == db_version_to_schema(user_version(store))

\* The command ends before to_latest / to_version is called.
NoCall(r, l) ==
    /\ call' = [op |-> "none", arg |-> 0]
    /\ pre' = db
    /\ Return(r, l)

\* Commands::Up(UpArgs { n }) up to the transaction the engine opens
Up(n) ==
    IF n # NoCount
    THEN \E readOk \in BOOLEAN :
         IF ~readOk
         THEN NoCall(Err("user_version", -1), << <<"read_failed", 0>> >>)
         ELSE LET cur_version == usize_from(current_version(db))
              IN  \E sum \in usize_add(cur_version, n) :
                     IF sum.panic
                     THEN NoCall(Err("add_overflow", -1), << <<"read", 0>> >>)
                     ELSE to_version(db, sum.val, << <<"read", 0>> >>)
    ELSE to_latest(db, <<>>)

\* Commands::Down(DownArgs { n }) up to the transaction the engine opens
Down(n) ==
    IF n # NoCount
    THEN \E readOk \in BOOLEAN :
         IF ~readOk
         THEN NoCall(Err("user_version", -1), << <<"read_failed", 0>> >>)
         ELSE LET cur_version == usize_from(current_version(db))
                  end_version == checked_sub(cur_version, n)
              IN  IF end_version = -1
                  THEN NoCall(Err("steps_down_too_large", -1), << <<"read", 0>> >>)
                  ELSE to_version(db, end_version, << <<"read", 0>> >>)
    ELSE to_version(db, 0, <<>>)

\* One run of the binary with the command op and the step count n: the
\* directory is loaded (ms is what it loads to), the database opened, and
\* the command run.
Cli(op, n) ==
    /\ pc = "idle"
    /\ cmd' = [op |-> op, n |-> n]
    /\ IF ~from_directory(dir).ok THEN NoCall(Err("load", -1), <<>>)
       ELSE \E openOk \in BOOLEAN :
            IF ~openOk THEN NoCall(Err("open", -1), <<>>)
            ELSE IF op = "up" THEN Up(n) ELSE Down(n)
    /\ UNCHANGED <<dir, ms, conn, mem>>

\* The directories the binary can be pointed at, the empty one and names
\* starting with 0 included.
CliEntries == [id : 0..MaxVersion, down : DownStates]

CliDirectories == UNION {[1..n -> CliEntries] : n \in 0..MaxSteps}

\* Any directory, any persisted version; ms is the sequence the directory
\* loads to, empty when it does not load.
InitCli ==
    /\ dir \in CliDirectories
    /\ ms = from_directory(dir).ms
    /\ \E v0 \in 0..MaxVersion : db = [version |-> v0, contents |-> 1..v0]
    /\ tx = NoTx
    /\ pc = "idle"
    /\ call = [op |-> "none", arg |-> 0]
    /\ target = 0
    /\ current = 0
    /\ v = 0
    /\ log = <<>>
    /\ result = Pending
    /\ pre = db
    /\ cmd = NoCmd
    /\ conn = "db"
    /\ mem = NoTx

\* Loaded steps have neither hooks nor the foreign key check.
NextCli ==
    \/ \E n \in Counts : Cli("up", n)
    \/ \E n \in Counts : Cli("down", n)
    \/ UpScript
    \/ DownScript
    \/ SetUserVersion
    \/ Commit

SpecCli == InitCli /\ [][NextCli]_vars

----------------------------------------------------------------------------
(* The command create of the binary *)

\* u32::MAX, scaled down.
U32Max == 3

\* u32 + u32: the sum, or on overflow a panic in a build with overflow
\* checks and the wrapped sum in a build without them.
u32_add(a, b) ==
    IF a + b <= U32Max THEN {[panic |-> FALSE, val |-> a + b]}
    ELSE {[panic |-> TRUE, val |-> 0],
          [panic |-> FALSE, val |-> (a + b) % (U32Max + 1)]}

\* The largest number the names of the folders start with: .max().unwrap_or(0)
max_sequence_number(entries) ==
    IF entries = <<>> THEN 0
    ELSE CHOOSE n \in {entries[i].id : i \in DOMAIN entries} :
             \A i \in DOMAIN entries : entries[i].id <= n

\* The directory with the folder e at position pos of its file name order.
Insert(entries, pos, e) ==
    SubSeq(entries, 1, pos - 1) \o <<e>> \o SubSeq(entries, pos, Len(entries))

\* create returns an error, the directory being left as entries.
CreateFails(entries, exists) ==
    /\ dir' = entries
    /\ cmd' = [cmd EXCEPT !.failed = TRUE, !.exists = exists]
    /\ result' = Err("create", -1)
    /\ log' = log

\* command::create. The places it can fail at: creating the missing
\* directory, reading it, creating the folder, writing up.sql, writing
\* down.sql (which may leave a part of it). The folder takes its place in
\* the file name order, which follows the numbers only while they have at
\* most four digits.
Create ==
    /\ pc = "idle"
    /\ cmd.op = "create"
    /\ Len(dir) <= U32Max
    /\ \E fails \in {"create_dir", "read_dir", "folder", "up.sql", "down.sql", "nothing"} :
          IF fails = "create_dir" THEN ~cmd.exists /\ CreateFails(dir, FALSE)
          ELSE IF fails = "read_dir" THEN CreateFails(dir, TRUE)
          ELSE \E new_sequence_number \in u32_add(max_sequence_number(dir), 1) :
               IF new_sequence_number.panic \/ fails = "folder"
               THEN CreateFails(dir, TRUE)
               ELSE \E pos \in 1..(Len(dir) + 1) :
                    LET id == new_sequence_number.val
                    IN  IF fails = "up.sql"
                        THEN CreateFails(Insert(dir, pos, [id |-> id, down |-> "absent"]), TRUE)
                        ELSE IF fails = "down.sql"
                        THEN \E d \in {"absent", "present"} :
                                CreateFails(Insert(dir, pos, [id |-> id, down |-> d]), TRUE)
                        ELSE /\ dir' = Insert(dir, pos, [id |-> id, down |-> "present"])
                             /\ cmd' = [cmd EXCEPT !.n = @ + 1, !.exists = TRUE]
                             /\ result' = Ok
                             /\ log' = Append(log, <<"create", id>>)
    /\ call' = [op |-> "create", arg |-> 0]
    /\ UNCHANGED <<ms, db, tx, pc, target, current, v, pre, conn, mem>>

\* Migrations::from_directory on the directory as it is now.
Load ==
    /\ pc = "idle"
    /\ cmd.op = "create"
    /\ cmd.exists
    /\ ms' = from_directory(dir).ms
    /\ result' = IF from_directory(dir).ok THEN Ok ELSE Err("load", -1)
    /\ call' = [op |-> "from_directory", arg |-> 0]
    /\ UNCHANGED <<dir, db, tx, pc, target, current, v, log, pre, cmd, conn, mem>>

\* A migration directory that is empty or missing; cmd.n counts the
\* successful calls of create, cmd.failed tells whether one has failed.
InitCreate ==
    /\ dir = <<>>
    /\ ms = <<>>
    /\ db = Fresh
    /\ tx = NoTx
    /\ pc = "idle"
    /\ call = [op |-> "none", arg |-> 0]
    /\ target = 0
    /\ current = 0
    /\ v = 0
    /\ log = <<>>
    /\ result = Pending
    /\ pre = db
    /\ \E exists \in BOOLEAN :
          cmd = [op |-> "create", n |-> 0, failed |-> FALSE, exists |-> exists]
    /\ conn = "db"
    /\ mem = NoTx

NextCreate ==
    \/ Create
    \/ Load

SpecCreate == InitCreate /\ [][NextCreate]_vars

----------------------------------------------------------------------------
(* Migrations::validate *)

\* validate running against the connection of the real store.
open_on_disk == "db"

\* Connection::open_in_memory(): a connection to a new in-memory store.
open_in_memory == "mem"

\* Migrations::validate up to the transaction to_latest opens
Validate ==
    /\ pc = "idle"
    /\ cmd' = [op |-> "validate", n |-> NoCount]
    /\ \E openOk \in BOOLEAN :
          IF ~openOk
          THEN /\ conn' = conn
               /\ mem' = mem
               /\ NoCall(Err("open", -1), <<>>)
          ELSE /\ conn' = open_in_memory
               /\ mem' = IF open_in_memory = "mem" THEN Fresh ELSE mem
               /\ to_latest(IF open_in_memory = "mem" THEN Fresh ELSE db, <<>>)
    /\ UNCHANGED <<dir, ms>>

\* Any sequence, built or loaded, and a real store at any version.
InitValidate ==
    /\ \/ dir = <<>> /\ ms \in NewSequences
       \/ /\ dir \in Directories
          /\ from_directory(dir).ok
          /\ ms = from_directory(dir).ms
    /\ \E v0 \in 0..MaxVersion : db = [version |-> v0, contents |-> 1..v0]
    /\ tx = NoTx
    /\ pc = "idle"
    /\ call = [op |-> "none", arg |-> 0]
    /\ target = 0
    /\ current = 0
    /\ v = 0
    /\ log = <<>>
    /\ result = Pending
    /\ pre = db
    /\ cmd = NoCmd
    /\ conn = "db"
    /\ mem = NoTx

NextValidate ==
    \/ Validate
    \/ UpScript
    \/ UpFk
    \/ UpHook
    \/ SetUserVersion
    \/ Commit

SpecValidate == InitValidate /\ [][NextValidate]_vars

----------------------------------------------------------------------------
(* The round trip: to_latest, to_version(0), to_latest on a fresh store *)

\* The results of a failing store operation or hook, as opposed to the
\* errors the engine raises itself.
EnvFailures ==
    {"query", "hook", "foreign_key", "commit", "transaction", "user_version"}

\* The step taken meets no failing store operation or hook.
NothingFails == result'.kind \notin EnvFailures

\* The caller makes its next call: to_latest, to_version(0), to_latest.
\* cmd.n counts the calls made, cmd.first keeps the log of the first.
RoundTripCall ==
    /\ pc = "idle"
    /\ cmd.op = "round_trip"
    /\ cmd.n < 3
    /\ cmd' = [cmd EXCEPT !.n = @ + 1, !.first = IF cmd.n = 1 THEN log ELSE @]
    /\ IF cmd.n = 1 THEN to_version(db, 0, <<>>) ELSE to_latest(db, <<>>)
    /\ UNCHANGED <<dir, ms, conn, mem>>

\* A non-empty sequence whose steps all have a reverse script, and a fresh
\* store.
InitRoundTrip ==
    /\ \/ dir = <<>> /\ ms \in NewSequences
       \/ /\ dir \in Directories
          /\ from_directory(dir).ok
          /\ ms = from_directory(dir).ms
    /\ Len(ms) >= 1
    /\ \A i \in 1..Len(ms) : ms[i].down # None
    /\ db = Fresh
    /\ tx = NoTx
    /\ pc = "idle"
    /\ call = [op |-> "none", arg |-> 0]
    /\ target = 0
    /\ current = 0
    /\ v = 0
    /\ log = <<>>
    /\ result = Pending
    /\ pre = db
    /\ cmd = [op |-> "round_trip", n |-> 0, first |-> <<>>]
    /\ conn = "db"
    /\ mem = NoTx

RoundTripNext ==
    \/ RoundTripCall /\ NothingFails
    \/ UpScript /\ NothingFails
    \/ UpFk /\ NothingFails
    \/ UpHook /\ NothingFails
    \/ DownHook /\ NothingFails
    \/ DownScript /\ NothingFails
    \/ SetUserVersion /\ NothingFails
    \/ Commit /\ NothingFails

SpecRoundTrip == InitRoundTrip /\ [][RoundTripNext]_vars

----------------------------------------------------------------------------
(* Vocabulary of the properties *)

\* A public call has been entered (and may still be running).
Called == call.op # "none"

\* The last public call has returned.
Returned == Called /\ pc = "idle"

\* The version the last call was asked to reach.
Requested == IF call.op = "to_latest" THEN Len(ms) ELSE call.arg

\* The persisted version when the last call was entered.
Before == pre.version

\* The log holds an event named e.
Has(e) == \E i \in DOMAIN log : log[i][1] = e

\* The events of the log that execute a part of a step, in order.
StepEvents(l) ==
    SelectSeq(l, LAMBDA e : e[1] \in {"up", "fk", "up_hook", "down_hook", "down"})

\* The last call is an upward transition Before -> Requested.
Upward == Called /\ Len(ms) >= 1 /\ Before < Requested /\ Requested <= Len(ms)

\* The last call is a downward transition Before -> Requested.
Downward == Called /\ Len(ms) >= 1 /\ Requested < Before /\ Before <= Len(ms)

\* What an upward transition c -> t has to execute, from the step records.
RECURSIVE UpEvents(_, _)
UpEvents(c, t) ==
    IF c >= t THEN <<>>
    ELSE << <<"up", c + 1>> >>
         \o (IF ms[c + 1].foreign_key_check THEN << <<"fk", c + 1>> >> ELSE <<>>)
         \o (IF ms[c + 1].up_hook THEN << <<"up_hook", c + 1>> >> ELSE <<>>)
         \o UpEvents(c + 1, t)

\* What a downward transition c -> t has to execute, from the step records.
RECURSIVE DownEvents(_, _)
DownEvents(c, t) ==
    IF c <= t THEN <<>>
    ELSE (IF ms[c].down_hook THEN << <<"down_hook", c>> >> ELSE <<>>)
         \o << <<"down", c>> >>
         \o DownEvents(c - 1, t)

----------------------------------------------------------------------------
(* Properties *)

\* C1 (atomicity): a transition that fails after its transaction was opened
\* (a script, check, hook, version write or commit fails) returns an error,
\* and the persisted version and the store contents equal those before the
\* call; nothing is persisted while the transaction is still running either.
C1_Atomicity ==
    /\ (Called /\ ~Has("commit")) => db = pre
    /\ (Returned /\ Has("begin") /\ ~Has("commit")) =>
          /\ Has("rollback")
          /\ result.kind \notin {"ok", "pending"}
          /\ tx = NoTx

\* A two-step batch whose second step fails after the first succeeded.
C1_Witness ==
    /\ Returned /\ Has("rollback") /\ result.kind = "hook"
    /\ Len(StepEvents(log)) >= 2
    /\ tx = NoTx /\ db = pre

\* C2 (fail-fast on revert): a downward transition whose range
\* (target, current] holds a step without reverse script never opens a
\* transaction and runs no reverse hook or script; it returns an error (the
\* pre-flight error whenever the version could be read) and the persisted
\* version and the store stay as they were.
C2_FailFastOnRevert ==
    (Downward /\ \E k \in (Requested + 1)..Before : ms[k].down = None) =>
        /\ ~Has("begin")
        /\ StepEvents(log) = <<>>
        /\ db = pre
        /\ Returned
        /\ result.kind \in {"down_not_defined", "user_version"}
        /\ Has("read") => result.kind = "down_not_defined"

\* Revert 2 -> 0 where step 1 cannot be reverted and step 2 can.
C2_Witness ==
    /\ Returned /\ Downward /\ Before = 2 /\ Requested = 0
    /\ ms[1].down = None /\ ms[2].down # None /\ ms[2].down_hook
    /\ result.kind = "down_not_defined"
    /\ db.version = 2

\* C3 (post-condition of success): a successful to_version(t) leaves the
\* persisted version at t and a successful to_latest leaves it at the
\* length of the sequence.
C3_SuccessReachesTarget ==
    (Returned /\ result = Ok) =>
        /\ call.op = "to_version" => db.version = call.arg
        /\ call.op = "to_latest" => db.version = Len(ms)

\* A successful to_latest that ran two steps.
C3_Witness ==
    /\ Returned /\ result = Ok /\ call.op = "to_latest"
    /\ Before = 0 /\ db.version = 2 /\ Has("commit")

\* C4 (outside-range rejection): with a non-empty sequence of N steps,
\* to_version(t) with t > N fails whatever the persisted version is, before
\* the store is touched in any way: no read, no transaction, no change.
C4_OutsideRangeRejected ==
    (Called /\ call.op = "to_version" /\ Len(ms) >= 1 /\ call.arg > Len(ms)) =>
        /\ Returned
        /\ result.kind = "higher_than_max"
        /\ log = <<>>
        /\ db = pre

\* to_version beyond the sequence, asked of a store that is itself outside.
C4_Witness ==
    /\ Returned /\ call.op = "to_version" /\ Len(ms) = 2 /\ call.arg = 3
    /\ Before = 3 /\ result.kind = "higher_than_max"

\* C5 (database-ahead rejection): when the persisted version is greater than
\* N, to_version(t) with t <= N and to_latest fail before any transaction
\* is opened, and the persisted version and the store are unchanged.
C5_DatabaseAheadRejected ==
    (Called /\ Before > Len(ms) /\ Requested <= Len(ms)) =>
        /\ Returned
        /\ result.kind \notin {"ok", "pending"}
        /\ ~Has("begin")
        /\ StepEvents(log) = <<>>
        /\ db = pre
        /\ (Len(ms) >= 1 /\ Has("read")) => result.kind = "too_far_ahead"

\* to_latest asked of a store one version ahead of a one-step sequence.
C5_Witness ==
    /\ Returned /\ call.op = "to_latest" /\ Len(ms) = 1 /\ Before = 2
    /\ ms[1].down # None
    /\ result.kind = "too_far_ahead" /\ db.version = 2

\* C6 as stated (no-op): with a non-empty sequence, a call whose target
\* equals the persisted version (which it reads) returns success, and all it
\* does is that read: no transaction, no script or hook, no version write,
\* no "migrated" message, and the store is unchanged.
C6_NoOpAnyTarget ==
    (Called /\ Len(ms) >= 1 /\ Requested = Before /\ ~Has("read_failed")) =>
        /\ Returned
        /\ result = Ok
        /\ log = << <<"read", 0>> >>
        /\ db = pre
        /\ tx = NoTx

\* C6 as amended (no-op): with a non-empty sequence of N steps, a call whose
\* target equals the persisted version and is at most N (to_latest with
\* current = N, to_version(t) with current = t <= N) reads the version and
\* returns success, and all it does is that read: no transaction, no script
\* or hook, no version write, no "migrated" message, the store unchanged.
C6_NoOp ==
    (Called /\ Len(ms) >= 1 /\ Requested = Before /\ Requested <= Len(ms)
       /\ ~Has("read_failed")) =>
        /\ Returned
        /\ result = Ok
        /\ log = << <<"read", 0>> >>
        /\ db = pre
        /\ tx = NoTx

\* to_latest asked of a store that is at the latest version.
C6_Witness ==
    /\ Returned /\ call.op = "to_latest" /\ Len(ms) = 2 /\ Before = 2
    /\ result = Ok /\ db = pre

\* The folder of the step with version k in the loaded directory.
FolderOf(k) == CHOOSE i \in DOMAIN dir : dir[i].id = k

\* C7 (loaded steps without down.sql): for a sequence loaded from a
\* directory, a downward transition whose range (target, current] holds a
\* step whose folder has no readable down.sql opens no transaction, runs
\* nothing, does not succeed and leaves the store untouched.
C7_LoadedStepWithoutDownNotReverted ==
    (dir # <<>> /\ Downward
       /\ \E k \in (Requested + 1)..Before : dir[FolderOf(k)].down # "present") =>
        /\ ~Has("begin")
        /\ StepEvents(log) = <<>>
        /\ db = pre
        /\ Returned
        /\ result.kind \notin {"ok", "pending"}

\* C8 (upward ordering): a successful upward transition current -> target
\* executes, for the versions current+1 .. target ascending and each once,
\* the forward script, then the consistency check if the step requires it,
\* then the forward hook if it has one, and nothing of any other step.
C8_UpwardOrdering ==
    (Returned /\ Upward /\ result = Ok) =>
        StepEvents(log) = UpEvents(Before, Requested)

\* A successful two-step upward run with a check and a hook.
C8_Witness ==
    /\ Returned /\ Upward /\ result = Ok
    /\ Before = 0 /\ Requested = 2
    /\ ms[1].foreign_key_check /\ ms[1].up_hook /\ ~ms[2].foreign_key_check
    /\ StepEvents(log)
         = << <<"up", 1>>, <<"fk", 1>>, <<"up_hook", 1>>, <<"up", 2>> >>
           \o (IF ms[2].up_hook THEN << <<"up_hook", 2>> >> ELSE <<>>)

\* C9 (downward ordering): a successful downward transition current ->
\* target executes, for the versions current .. target+1 descending and
\* each once, the reverse hook if the step has one and then the reverse
\* script, and nothing of any step with a version <= target.
C9_DownwardOrdering ==
    (Returned /\ Downward /\ result = Ok) =>
        StepEvents(log) = DownEvents(Before, Requested)

\* A successful two-step downward run, the upper step with a reverse hook.
C9_Witness ==
    /\ Returned /\ Downward /\ result = Ok
    /\ Before = 2 /\ Requested = 0
    /\ ms[2].down_hook /\ ~ms[1].down_hook
    /\ StepEvents(log) = << <<"down_hook", 2>>, <<"down", 2>>, <<"down", 1>> >>

\* The positions of the log that write the version counter.
Writes == {i \in DOMAIN log : log[i][1] = "write"}

\* C10 (version write discipline): the counter is written at most once per
\* call, with the value target, while the transaction is open, after every
\* step of the batch has been executed and with nothing but the commit (or
\* the rollback of a failed commit) after it; a transition that succeeds
\* has written it exactly once, immediately before the commit.
C10_VersionWriteDiscipline ==
    /\ \A i \in Writes :
          /\ Cardinality(Writes) = 1
          /\ log[i][2] = Requested
          /\ \E j \in 1..(i - 1) : log[j][1] = "begin"
          /\ StepEvents(SubSeq(log, 1, i - 1))
               = (IF Before < Requested THEN UpEvents(Before, Requested)
                  ELSE DownEvents(Before, Requested))
          /\ i < Len(log) => log[i + 1][1] \in {"commit", "rollback"}
          /\ (i = Len(log)) => (pc = "commit" /\ tx # NoTx)
    /\ (Writes = {} /\ tx # NoTx) => tx.version = db.version
    /\ (Returned /\ result = Ok /\ Requested # Before) =>
          /\ Cardinality(Writes) = 1
          /\ Len(log) >= 3
          /\ log[Len(log) - 2] = <<"write", Requested>>
          /\ log[Len(log) - 1] = <<"commit", 0>>
    /\ db.version # pre.version => Has("commit")

\* A two-step run right after its version write, before the commit.
C10_Witness ==
    /\ pc = "commit" /\ Upward /\ Requested = 2 /\ Before = 0
    /\ log[Len(log)] = <<"write", 2>>
    /\ tx.version = 2 /\ db.version = 0

\* The events of the log that execute a script, in order.
ScriptEvents(l) == SelectSeq(l, LAMBDA e : e[1] \in {"up", "down"})

\* C11 (round trip): for a sequence of N >= 1 steps that all have a reverse
\* script, on a fresh store and with no script, check, hook or store
\* operation failing, to_latest, to_version(0), to_latest all succeed and
\* leave the persisted version at N, 0, N; the first and the last run
\* execute the forward scripts 1..N ascending, and the last run does to the
\* store exactly what the first did.
C11_RoundTrip ==
    (pc = "idle" /\ cmd.n >= 1) =>
        /\ result = Ok
        /\ cmd.n \in {1, 3} =>
              /\ db.version = Len(ms)
              /\ ScriptEvents(log) = [k \in 1..Len(ms) |-> <<"up", k>>]
              /\ StepEvents(log) = UpEvents(0, Len(ms))
        /\ cmd.n = 2 =>
              /\ db.version = 0
              /\ ScriptEvents(log) = [k \in 1..Len(ms) |-> <<"down", Len(ms) + 1 - k>>]
        /\ cmd.n = 3 => log = cmd.first

\* The third call of a round trip over two steps has returned.
C11_Witness ==
    /\ pc = "idle" /\ cmd.op = "round_trip" /\ cmd.n = 3
    /\ Len(ms) = 2 /\ result = Ok /\ db.version = 2
    /\ pre.version = 0 /\ Len(cmd.first) > 0 /\ log = cmd.first

\* C12 (empty sequence): with an empty step sequence, to_latest and
\* to_version(t) for every t fail with "no migration defined"; the persisted
\* version is not read, nothing is opened or run, and the store is unchanged.
C12_EmptySequence ==
    (Called /\ Len(ms) = 0) =>
        /\ Returned
        /\ result.kind = "no_migration_defined"
        /\ log = <<>>
        /\ tx = NoTx
        /\ db = pre

\* to_version(0) asked of a fresh store by an engine without steps.
C12_Witness ==
    /\ Returned /\ call.op = "to_version" /\ call.arg = 0
    /\ Len(ms) = 0 /\ Before = 0
    /\ result.kind = "no_migration_defined" /\ db = Fresh

\* The SchemaVersions that carry the raw version raw.
Variants(raw) == IF raw = 0 THEN {NoneSet} ELSE {Inside(raw), Outside(raw)}

\* C13 (version classification): against a sequence of N steps a raw
\* version v is classified NoneSet iff v = 0, Inside(v) iff 1 <= v <= N and
\* Outside(v) iff v > N; converting the SchemaVersion back gives v; and the
\* ordering of two SchemaVersions is the numeric ordering of their integers.
\* The raw versions are the argument of the last to_version and the
\* persisted version it met, which range over all pairs.
C13_Classification ==
    /\ \A raw \in {call.arg, pre.version} :
          LET sv == db_version_to_schema(raw)
          IN  /\ sv = NoneSet <=> raw = 0
              /\ sv.tag = "Inside" <=> (1 <= raw /\ raw <= Len(ms))
              /\ sv.tag = "Outside" <=> raw > Len(ms)
              /\ sv.tag \in {"Inside", "Outside"} => sv.v = raw
              /\ usize_from(sv) = raw
    /\ \A a \in Variants(call.arg), b \in Variants(pre.version) :
          /\ partial_cmp(a, b) = "Less" <=> call.arg < pre.version
          /\ partial_cmp(a, b) = "Equal" <=> call.arg = pre.version
          /\ partial_cmp(a, b) = "Greater" <=> call.arg > pre.version
    /\ (Called /\ call.op = "to_version" /\ Len(ms) >= 1) =>
          (result.kind = "higher_than_max"
             <=> db_version_to_schema(call.arg).tag = "Outside")

\* to_version(N) and to_version(N + 1) on either side of the boundary: the
\* first classified Inside and let through, the second Outside and refused.
C13_Witness ==
    /\ Returned /\ call.op = "to_version" /\ Len(ms) = 1
    /\ \/ call.arg = 1 /\ Before = 0 /\ result = Ok
       \/ call.arg = 2 /\ Before = 0 /\ result.kind = "higher_than_max"

\* The last event of the log, or a pair naming none.
LastEvent == IF log = <<>> THEN <<"none", 0>> ELSE log[Len(log)]

\* C18 (consistency check): in an upward transition the check of a step
\* that requires it runs directly after the step's forward script and
\* before its forward hook; a row returned by the integrity query fails the
\* whole transition (no hook of the step, no later step, no version write,
\* rollback), no row lets it continue; a step that does not require the
\* check is never checked.
C18_ConsistencyCheck ==
    /\ \A i \in DOMAIN log :
          LET k == log[i][2]
          IN  /\ log[i][1] = "fk" =>
                    /\ ms[k].foreign_key_check
                    /\ i > 1 /\ log[i - 1] = <<"up", k>>
              /\ (log[i][1] = "up_hook" /\ ms[k].foreign_key_check) =>
                    (i > 1 /\ log[i - 1] = <<"fk", k>>)
              /\ (log[i][1] = "up" /\ ms[k].foreign_key_check) =>
                    IF i = Len(log) THEN pc = "up_fk" /\ v + 1 = k
                    ELSE log[i + 1] \in {<<"fk", k>>, <<"rollback", 0>>}
    /\ pc = "up_fk" =>
          /\ ms[v + 1].foreign_key_check
          /\ LastEvent = <<"up", v + 1>>
    /\ LastEvent[1] = "fk" =>
          pc = IF ms[LastEvent[2]].up_hook THEN "up_hook"
               ELSE IF LastEvent[2] < target THEN "up_script"
               ELSE "set_user_version"
    /\ result.kind = "foreign_key" =>
          /\ Returned
          /\ Len(log) >= 2
          /\ LastEvent = <<"rollback", 0>>
          /\ log[Len(log) - 1][1] = "up"
          /\ ms[log[Len(log) - 1][2]].foreign_key_check
          /\ ~Has("write") /\ ~Has("commit")
          /\ tx = NoTx
          /\ db = pre

\* The check of step 1 returned no row and the check of step 2 a row.
C18_Witness ==
    /\ Returned /\ result.kind = "foreign_key"
    /\ Before = 0 /\ Requested = 2
    /\ ms[1].foreign_key_check /\ ms[2].foreign_key_check /\ ms[2].up_hook
    /\ Has("fk")
    /\ StepEvents(log) = (IF ms[1].up_hook
                          THEN << <<"up", 1>>, <<"fk", 1>>, <<"up_hook", 1>>, <<"up", 2>> >>
                          ELSE << <<"up", 1>>, <<"fk", 1>>, <<"up", 2>> >>)
    /\ db = pre

\* C19 (unreachable states): whatever the persisted version and the step
\* sequence, (a) the reverse loop only meets steps with a reverse script,
\* the pre-flight scan having covered the indices target..current-1 it
\* visits, (b) goto_up runs with current <= target <= N and goto_down with
\* target <= current and target <= N, (c) every step index used lies in
\* 0..N-1; so no call ends in a panic.
C19_UnreachableStaysUnreachable ==
    /\ result.kind \notin {"unreachable", "debug_assert", "index_out_of_bounds"}
    /\ pc \in {"up_script", "up_fk", "up_hook"} =>
          /\ goto_up_asserts(current, target)
          /\ current <= v /\ v < target
          /\ 0 <= v /\ v < Len(ms)
    /\ pc \in {"down_hook", "down_script"} =>
          /\ goto_down_asserts(current, target)
          /\ target <= v /\ v < current
          /\ 0 <= v /\ v < Len(ms)
          /\ ms[v + 1].down # None
          /\ \A i \in target..(current - 1) : ms[i + 1].down # None
    /\ pc \in {"set_user_version", "commit"} =>
          /\ target <= Len(ms)
          /\ goto_up_asserts(current, target) \/ goto_down_asserts(current, target)

\* The reverse loop at its last index, 0, of a run 2 -> 0.
C19_Witness ==
    /\ pc = "down_script" /\ v = 0
    /\ current = 2 /\ target = 0 /\ Len(ms) = 2
    /\ log[Len(log)] = <<"down", 2>>

\* C20 (pre-flight error index): the index carried by the "down not
\* defined" error of a downward transition current -> target is the storage
\* index (version minus 1) of the lowest version in (target, current] whose
\* step lacks a reverse script, however many steps of the range lack one.
C20_PreflightIndex ==
    result.kind = "down_not_defined" =>
        /\ Downward
        /\ LET lacking == {k \in (Requested + 1)..Before : ms[k].down = None}
           IN  /\ result.idx + 1 \in lacking
               /\ \A k \in lacking : result.idx + 1 <= k

\* Both steps of the range (0, 2] lack a reverse script; index 0 is named.
C20_Witness ==
    /\ Returned /\ Downward /\ Before = 2 /\ Requested = 0
    /\ ms[1].down = None /\ ms[2].down = None
    /\ result = Err("down_not_defined", 0)

\* The numbers the names of the directory's folders start with.
Ids == {dir[i].id : i \in DOMAIN dir}

\* C14 (loader contract): from_directory returns a sequence only when the
\* ids of the directory's N entries are exactly 1..N with N >= 1, and then
\* the step of the folder with id k is stored at index k - 1 whatever the
\* file name order; an empty directory, a duplicated id, a gap or an id
\* above the number of entries gives an error and no sequence, and the
\* command ends there.
C14_LoaderContract ==
    LET r == from_directory(dir)
    IN  /\ r.ok <=> (Len(dir) >= 1 /\ Ids = 1..Len(dir))
        /\ r.ok =>
              /\ Len(r.ms) = Len(dir)
              /\ \A i \in DOMAIN dir :
                    /\ \A j \in DOMAIN dir : dir[j].id = dir[i].id => j = i
                    /\ r.ms[dir[i].id].down = "sql" <=> dir[i].down = "present"
        /\ ~r.ok => r.ms = <<>>
        /\ ms = r.ms
        /\ cmd # NoCmd => (result.kind = "load" <=> ~r.ok)
        /\ ~r.ok => call.op = "none" /\ log = <<>> /\ db = pre

\* A directory whose file name order is the reverse of its id order, loaded
\* and migrated: the folder with id 1, sorted second, is the step at index 0.
C14_Witness ==
    /\ Len(dir) = 2 /\ dir[1].id = 2 /\ dir[2].id = 1
    /\ dir[1].down = "present" /\ dir[2].down = "absent"
    /\ ms[1].down = "" /\ ms[2].down = "sql"
    /\ cmd.op = "up" /\ pc = "idle" /\ result = Ok
    /\ pre.version = 0 /\ db.version = 2

\* The command has run to its end with the directory loaded, the database
\* opened and the persisted version read.
Ran(op) ==
    /\ cmd.op = op
    /\ pc = "idle"
    /\ result.kind \notin {"load", "open"}
    /\ ~Has("read_failed")

\* C15 (CLI up): with a step count k, up applies exactly k steps forward
\* from the current version c and ends at c + k when c + k <= N, and fails
\* with the store unchanged when c + k > N; without a step count it
\* migrates to N; k = 0 is a successful no-op (for c <= N).
C15_CliUp ==
    Ran("up") =>
        LET c == pre.version
            k == cmd.n
            N == Len(ms)
        IN  /\ (k # NoCount /\ c + k <= N) =>
                  /\ result.kind \in {"ok"} \cup EnvFailures
                  /\ result = Ok =>
                        /\ db.version = c + k
                        /\ StepEvents(log) = UpEvents(c, c + k)
            /\ (k # NoCount /\ c + k > N) =>
                  /\ result # Ok
                  /\ db = pre
                  /\ StepEvents(log) = <<>>
            /\ k = NoCount =>
                  /\ c <= N => result.kind \in {"ok"} \cup EnvFailures
                  /\ result = Ok => db.version = N
            /\ (k = 0 /\ c <= N) =>
                  /\ result = Ok
                  /\ db = pre
                  /\ StepEvents(log) = <<>>
            /\ result # Ok => db = pre

\* C16 (CLI down): with a step count k, down reverts exactly k steps from
\* the current version c <= N and ends at c - k when k <= c, and fails with
\* the store unchanged and without calling the engine when k > c; without
\* a step count it reverts to 0; a current version above N makes the
\* command fail with the store unchanged in every case.
C16_CliDown ==
    /\ cmd.op = "down" => (result # Ok => db = pre)
    /\ Ran("down") =>
        LET c == pre.version
            k == cmd.n
            N == Len(ms)
            t == IF k = NoCount THEN 0 ELSE c - k
        IN  /\ (k # NoCount /\ k > c) =>
                  /\ result.kind = "steps_down_too_large"
                  /\ call.op = "none"
                  /\ log = << <<"read", 0>> >>
                  /\ db = pre
            /\ c > N =>
                  /\ result # Ok
                  /\ result.kind \notin EnvFailures
                  /\ ~Has("begin")
                  /\ db = pre
            /\ (c <= N /\ (k = NoCount \/ k <= c)) =>
                  /\ call = [op |-> "to_version", arg |-> t]
                  /\ result.kind \in {"ok"} \cup EnvFailures
                  /\ result = Ok =>
                        /\ db.version = t
                        /\ StepEvents(log) = DownEvents(c, t)
                        /\ ScriptEvents(log) = [i \in 1..(c - t) |-> <<"down", c + 1 - i>>]

\* down -n 1 has reverted the upper of two applied steps.
C16_Witness ==
    /\ Ran("down") /\ cmd.n = 1
    /\ Len(ms) = 2 /\ pre.version = 2
    /\ result = Ok /\ db.version = 1
    /\ ScriptEvents(log) = << <<"down", 2>> >>

\* What validate has established when it has returned.
ValidateOutcome ==
    (cmd.op = "validate" /\ pc = "idle") =>
        /\ Len(ms) = 0 => result.kind \in {"no_migration_defined", "open"}
        /\ result.kind # "open" =>
              /\ call.op = "to_latest"
              /\ conn = "mem"
              /\ pre = Fresh
        /\ result = Ok <=>
              /\ Len(ms) >= 1
              /\ StepEvents(log) = UpEvents(0, Len(ms))
              /\ Has("commit")
        /\ result = Ok =>
              /\ mem = [version |-> Len(ms), contents |-> 1..Len(ms)]
              /\ log[Len(log)] = <<"migrated", Len(ms)>>
        /\ (result # Ok /\ Len(ms) >= 1) =>
              /\ result.kind \in EnvFailures \cup {"open"}
              /\ result.kind # "open" => mem = Fresh

\* C17 (validate): validate runs to_latest against a fresh in-memory store
\* at version 0; it returns success exactly when the whole upward
\* transition 0 -> N of the owned sequence succeeds, an error for an empty
\* sequence, and no step of it changes the version or the contents of the
\* real store.
C17_Validate == []ValidateOutcome /\ [][db' = db]_vars

\* validate has succeeded on two steps next to a real store at version 1.
C17_Witness ==
    /\ cmd.op = "validate" /\ pc = "idle" /\ result = Ok
    /\ Len(ms) = 2 /\ mem.version = 2
    /\ db = [version |-> 1, contents |-> {1}]

\* No version the engine writes is one it classifies as Outside.
WritesInside ==
    /\ \A i \in Writes : db_version_to_schema(log[i][2]).tag # "Outside"
    /\ tx # NoTx => (tx.version = pre.version \/ tx.version <= Len(ms))

\* A step takes a persisted version within 0..N to one within 0..N, and
\* leaves a persisted version above N as it is.
StaysInRange ==
    IF db.version <= Len(ms)
    THEN db'.version \in 0..Len(ms)
    ELSE db'.version = db.version

\* C21 (version range): over any sequence of to_latest and to_version(t)
\* calls on one engine of N steps, succeeding or failing, a persisted
\* version that starts within 0..N stays within 0..N and one that starts
\* above N stays exactly what it is; the engine never writes a version it
\* classifies as Outside.
C21_VersionRange == []WritesInside /\ [][StaysInRange]_vars

\* A second call, refused for its target above N, after a first one that
\* went from 2 down to 1 over a loaded step with an empty reverse script.
C21_Witness ==
    /\ Returned /\ call = [op |-> "to_version", arg |-> 3]
    /\ Len(ms) = 2 /\ ms[2].down = ""
    /\ result.kind = "higher_than_max"
    /\ db = [version |-> 1, contents |-> {1, 2}]

\* C22 (scaffolding keeps the directory loadable): from an empty or
\* missing directory, after k >= 1 calls of create that all succeeded the
\* directory holds folders numbered exactly 1..k, the i-th created numbered
\* i, each with a down.sql, and from_directory accepts it and yields k
\* steps in creation order, each with a reverse script.
C22_ScaffoldingLoadable ==
    (cmd.op = "create" /\ cmd.n >= 1 /\ ~cmd.failed) =>
        LET k == cmd.n
            r == from_directory(dir)
        IN  /\ Len(dir) = k
            /\ Ids = 1..k
            /\ log = [i \in 1..k |-> <<"create", i>>]
            /\ \A i \in DOMAIN dir : dir[i].down = "present"
            /\ r.ok
            /\ Len(r.ms) = k
            /\ \A i \in 1..k : r.ms[i].down \notin {None, ""}
            /\ call.op = "from_directory" => (result = Ok /\ ms = r.ms)

====
